---------------------------- MODULE Spec2Model ----------------------------
(* Model of src/youtube_keyword_scraper.py: YouTubeKeywordResearcher.       *)
(* One researcher object is constructed and one public method is called on  *)
(* it: run(keyword), or get_video_comments(video_id, max_comments).         *)
(* Keywords and comments are sequences of one-character strings; titles,    *)
(* channels and ids, which the code only copies, are strings. A report is   *)
(* the list of lines generate_report joins with "\n".                      *)
EXTENDS Integers, Sequences, FiniteSets, TLC

VARIABLES
    api_key,          \* os.getenv('YOUTUBE_API_KEY') is set
    youtube,          \* self.youtube is not None
    max_videos,       \* self.max_videos
    entry,            \* the public method the caller invokes
    keyword,          \* argument of run
    pc,               \* position of the call
    videos,           \* run: list returned by search_videos
    idx,              \* run: 1-based position of the for loop over videos
    all_comments,     \* run: dict video id -> comments
    video_id,         \* get_video_comments: argument
    max_comments,     \* get_video_comments: argument
    comments,         \* get_video_comments: local list
    request,          \* get_video_comments: local request (live = FALSE is None)
    next_page_token,  \* get_video_comments: 'nextPageToken' in response
    ret,              \* list returned by the last get_video_comments call
    result,           \* value returned by run (list of lines)
    raised,           \* an exception reached the caller of the public method
    selected,         \* history: self.youtube is not None when __init__ returned
    n_api_search,     \* history: search().list().execute() calls
    n_ytdlp,          \* history: _search_with_yt_dlp calls
    src_items,        \* history: number of items the search source returned
    fetched,          \* history: video ids passed to get_video_comments by run
    first_failed,     \* history: first loop position whose fetch hit the except branch
    n_report,         \* history: generate_report calls
    n_pages,          \* history: request.execute() calls of the current fetch
    n_tokens,         \* history: responses of the current fetch with a nextPageToken
    search_error,     \* history: the search call raised
    returned,         \* history: the lists get_video_comments returned to run, in call order
    fetch_error       \* history: the current fetch ended in its except branch

vars == <<api_key, youtube, max_videos, entry, keyword, pc, videos, idx,
          all_comments, video_id, max_comments, comments, request,
          next_page_token, ret, result, raised, n_api_search, n_ytdlp,
          src_items, fetched, first_failed, n_report, n_pages,
          fetch_error, selected, n_tokens, search_error, returned>>

searchVars == <<videos, result, n_api_search, n_ytdlp, src_items, n_report,
                search_error>>

confVars == <<api_key, youtube, max_videos, entry, keyword, selected>>

-----------------------------------------------------------------------------
(* Bounds of the model *)

\* largest max_videos the caller passes to the constructor
MaxVideosArg == 2
\* the search source returns at most this many items in one response
MaxSourceItems == 2
\* largest small max_comments of a direct get_video_comments call
MaxCommentsArg == 2
\* a page carries at most as many items as bring the list to this length
MaxThread == 2
\* a comment thread is served in at most this many pages
MaxPages == 2

(* Program constants *)

\* len(comment) > 10
MinLen == 10
\* min(100, ...)
PageCap == 100
\* get_video_comments(video['id'], max_comments=20)
PerVideoCap == 20

Min(a, b) == IF a < b THEN a ELSE b

-----------------------------------------------------------------------------
(* Text cleaning: re.sub(r'http\S+|www\S+', '', comment).strip() *)

IsSpace(c) == c \in {" ", "\t", "\n", "\r"}

HasPrefix(s, p) == Len(s) >= Len(p) /\ SubSeq(s, 1, Len(p)) = p

RECURSIVE NonSpaceRun(_)
\* length of the longest prefix of s without whitespace: what \S* consumes
NonSpaceRun(s) ==
    IF s = <<>> \/ IsSpace(Head(s)) THEN 0 ELSE 1 + NonSpaceRun(Tail(s))

\* length of the match of  p\S+  at the start of s, 0 when there is none
MatchLit(s, p) ==
    IF HasPrefix(s, p) /\ NonSpaceRun(SubSeq(s, Len(p) + 1, Len(s))) >= 1
    THEN Len(p) + NonSpaceRun(SubSeq(s, Len(p) + 1, Len(s)))
    ELSE 0

\* length of the match of  http\S+|www\S+  at the start of s
UrlMatchLen(s) ==
    IF MatchLit(s, <<"h", "t", "t", "p">>) > 0
    THEN MatchLit(s, <<"h", "t", "t", "p">>)
    ELSE MatchLit(s, <<"w", "w", "w">>)

RECURSIVE StripUrls(_)
\* re.sub(r'http\S+|www\S+', '', s): leftmost non-overlapping matches removed
StripUrls(s) ==
    IF s = <<>> THEN <<>>
    ELSE IF UrlMatchLen(s) > 0
         THEN StripUrls(SubSeq(s, UrlMatchLen(s) + 1, Len(s)))
         ELSE <<Head(s)>> \o StripUrls(Tail(s))

RECURSIVE LStrip(_)
LStrip(s) == IF s # <<>> /\ IsSpace(Head(s)) THEN LStrip(Tail(s)) ELSE s

RECURSIVE RStrip(_)
RStrip(s) ==
    IF s # <<>> /\ IsSpace(s[Len(s)]) THEN RStrip(SubSeq(s, 1, Len(s) - 1)) ELSE s

\* str.strip()
Strip(s) == RStrip(LStrip(s))

\* lines 171-172
Clean(raw) == Strip(StripUrls(raw))

\* mutant: comments of exactly MinLen characters pass
AcceptedOffByOne(c) == Len(c) >= MinLen

\* line 174
Accepted(c) == Len(c) > MinLen

-----------------------------------------------------------------------------
(* What the external sources can answer *)

\* "nice!"
RawShort == <<"n", "i", "c", "e", "!">>
\* "see http://x.y now ok"
RawWithUrl == <<"s", "e", "e", " ", "h", "t", "t", "p", ":", "/", "/", "x",
                ".", "y", " ", "n", "o", "w", " ", "o", "k">>
\* "  hello world!  "
RawPadded == <<" ", " ", "h", "e", "l", "l", "o", " ", "w", "o", "r", "l",
               "d", "!", " ", " ">>
\* "ten chars! www.x"
RawTenAfterUrl == <<"t", "e", "n", " ", "c", "h", "a", "r", "s", "!", " ",
                    "w", "w", "w", ".", "x">>

\* textDisplay values a comment thread can carry
RawComments == {RawShort, RawWithUrl, RawPadded, RawTenAfterUrl}

SeqsUpTo(S, n) == UNION {[1..k -> S] : k \in 0..n}

\* the cleaning of lines 171-172 applied to each text a thread can carry
Cleaned == [r \in RawComments |-> Clean(r)]

RECURSIVE CleanPage(_)
\* the for loop of lines 168-175 over one page: the accepted cleaned comments
CleanPage(items) ==
    IF items = <<>> THEN <<>>
    ELSE (IF Accepted(Cleaned[Head(items)]) THEN <<Cleaned[Head(items)]>> ELSE <<>>)
         \o CleanPage(Tail(items))

AllKeys == {"id", "title", "channel"}

\* items a search source can return; keys are the fields present in the item
SourceItems ==
    { [id |-> "v1", title |-> "T1", channel |-> "C1", keys |-> AllKeys],
      [id |-> "v2", title |-> "T2", channel |-> "C2", keys |-> AllKeys],
      [id |-> "v3", title |-> "T3", channel |-> "", keys |-> {"id", "title"}] }

\* the item lists of a search response: any number of items up to the bound,
\* also more than the maxResults asked for; a response names a video once
SearchResponses ==
    {s \in SeqsUpTo(SourceItems, MaxSourceItems) :
        \A i, j \in 1..Len(s) : s[i].id = s[j].id => i = j}

\* the keywords the caller passes: empty, blank, and a word
Keywords == {<<>>, <<" ">>, <<"i", "a">>}

-----------------------------------------------------------------------------
(* search_videos and _search_with_yt_dlp *)

UrlPrefix == "https://www.youtube.com/watch?v="

Inconnu == "Inconnu"

\* f'https://www.youtube.com/watch?v={video_id}': the prefix, then the id
Url(id) == <<UrlPrefix, id>>

\* lines 92-101
VideoFromApi(item) ==
    [id |-> item.id, title |-> item.title, channel |-> item.channel,
     url |-> Url(item.id)]

\* lines 127-132
VideoFromYtDlp(item) ==
    [id |-> item.id, title |-> item.title,
     channel |-> IF "channel" \in item.keys THEN item.channel ELSE Inconnu,
     url |-> Url(item.id)]

\* lines 88-109: the list search_videos returns for a response of the API;
\* ok = FALSE is execute() raising, a missing key raises KeyError in the loop
SearchApiResult(ok, items) ==
    IF ok /\ \A i \in 1..Len(items) : AllKeys \subseteq items[i].keys
    THEN [i \in 1..Len(items) |-> VideoFromApi(items[i])]
    ELSE <<>>

\* lines 121-138: the list _search_with_yt_dlp returns
SearchYtDlpResult(ok, items) ==
    IF ok /\ \A i \in 1..Len(items) : {"id", "title"} \subseteq items[i].keys
    THEN [i \in 1..Len(items) |-> VideoFromYtDlp(items[i])]
    ELSE <<>>

-----------------------------------------------------------------------------
(* generate_report *)

Line(kind, n, text) == [kind |-> kind, n |-> n, text |-> text]

\* str.upper() on the characters the keywords use
UpperChar(c) == CASE c = "i" -> "I" [] c = "a" -> "A" [] OTHER -> c

Upper(s) == [i \in 1..Len(s) |-> UpperChar(s[i])]

\* mutant: the comments are listed last first
CommentLinesReversed(cs) ==
    [k \in 1..(2 * Len(cs)) |->
        IF k % 2 = 1
        THEN Line("comment", (k + 1) \div 2, cs[Len(cs) + 1 - (k + 1) \div 2])
        ELSE Line("blank", 0, <<>>)]

\* lines 226-228: enumerate(comments, 1)
CommentLines(cs) ==
    [k \in 1..(2 * Len(cs)) |->
        IF k % 2 = 1 THEN Line("comment", (k + 1) \div 2, cs[(k + 1) \div 2])
        ELSE Line("blank", 0, <<>>)]

\* line 222: all_comments.get(video['id'], [])
CommentsOf(ac, video) == IF video.id \in DOMAIN ac THEN ac[video.id] ELSE <<>>

\* lines 223-231
CommentBlock(cs) ==
    IF cs # <<>>
    THEN <<Line("top", Len(cs), <<>>), Line("blank", 0, <<>>)>> \o CommentLines(cs)
    ELSE <<Line("no_comments", 0, <<>>), Line("blank", 0, <<>>)>>

\* lines 216-231: the section of the video at position i
VideoSection(i, video, ac) ==
    <<Line("rule", 0, <<>>), Line("video", i, video.title),
      Line("channel", 0, video.channel), Line("url", 0, video.url),
      Line("blank", 0, <<>>)>> \o CommentBlock(CommentsOf(ac, video))

RECURSIVE SectionsFrom(_, _, _)
\* lines 215-231: enumerate(videos, 1) from position i on
SectionsFrom(i, vs, ac) ==
    IF i > Len(vs) THEN <<>>
    ELSE VideoSection(i, vs[i], ac) \o SectionsFrom(i + 1, vs, ac)

\* lines 208-237: the list of lines that is joined; the text of the date line
\* (datetime.now()) is left out
generate_report(kw, vs, ac) ==
    <<Line("banner", 0, <<>>), Line("header", 0, Upper(kw)),
      Line("banner", 0, <<>>), Line("date", 0, <<>>),
      Line("count", Len(vs), <<>>)>>
    \o SectionsFrom(1, vs, ac)
    \o <<Line("banner", 0, <<>>), Line("end", 0, <<>>), Line("banner", 0, <<>>)>>

\* line 257: "Aucune vidéo trouvée pour cette recherche."
NoResultsReport == <<Line("no_results", 0, <<>>)>>

\* the pages a thread can serve, by the number of items they may carry
PagesUpTo == [k \in 0..MaxThread |-> SeqsUpTo(RawComments, k)]

\* CleanPage of each of these pages
CleanedPage == [p \in PagesUpTo[MaxThread] |-> CleanPage(p)]

-----------------------------------------------------------------------------
(* get_video_comments *)

NoRequest == [live |-> FALSE, maxResults |-> 0, pageToken |-> FALSE]

\* line 161
FirstPageSize(maxc) == Min(PageCap, maxc)

\* mutant: the page size ignores what is already accumulated
NextPageSizeFull(maxc, n) == Min(PageCap, maxc)

\* line 184
NextPageSize(maxc, n) == Min(PageCap, maxc - n)

\* line 178
ContinuePaging(token, n, maxc) == token /\ n < maxc

\* line 165
LoopRuns(req, n, maxc) == req.live /\ n < maxc

\* line 190: comments[:max_comments]
FetchResult(cs, maxc) == SubSeq(cs, 1, Min(maxc, Len(cs)))

\* lines 192-194: what the except branch returns, cs being the local list
FetchResultOnError(cs) == <<>>

\* mutant: the except branch is missing
FetchLetsThrough == FALSE

\* line 192: except Exception covers what request.execute() raises
FetchCatches == TRUE

\* lines 107, 136: except Exception covers what the search calls raise
SearchCatches == TRUE

\* max_comments values of a direct call
CommentArgs == (1..MaxCommentsArg) \cup {PageCap + 1}

EmptyDict == [v \in {} |-> <<>>]

\* mutant: a video without comments gets no entry
StoreUnlessEmpty(ac, vid, cs) ==
    IF cs = <<>> THEN ac
    ELSE [v \in DOMAIN ac \cup {vid} |-> IF v = vid THEN cs ELSE ac[v]]

\* line 268: all_comments[video['id']] = comments
Store(ac, vid, cs) ==
    [v \in DOMAIN ac \cup {vid} |-> IF v = vid THEN cs ELSE ac[v]]

\* get_video_comments returns list r. Called by run (lines 267-269), r is
\* stored under the video's id, the locals of the call are gone and the for
\* loop moves on; called by the caller itself, the call is over.
GvcReturn(vid, maxc, r, cs, req, token, np, nt, err) ==
    /\ ret' = r
    /\ IF entry = "run"
       THEN /\ all_comments' = Store(all_comments, videos[idx].id, r)
            /\ first_failed' =
                  IF err /\ first_failed = 0 THEN idx ELSE first_failed
            /\ idx' = idx + 1
            /\ returned' = Append(returned, r)
            /\ pc' = "fetch_loop"
            /\ video_id' = ""
            /\ max_comments' = 0
            /\ comments' = <<>>
            /\ request' = NoRequest
            /\ next_page_token' = FALSE
            /\ n_pages' = 0
            /\ n_tokens' = 0
            /\ fetch_error' = FALSE
       ELSE /\ pc' = "done"
            /\ video_id' = vid
            /\ max_comments' = maxc
            /\ comments' = cs
            /\ request' = req
            /\ next_page_token' = token
            /\ n_pages' = np
            /\ n_tokens' = nt
            /\ fetch_error' = err
            /\ UNCHANGED <<all_comments, first_failed, idx, returned>>

\* lines 151-163: get_video_comments(vid, maxc) is entered; without an API
\* object it returns [] at once (lines 152-154)
GvcEnter(vid, maxc) ==
    IF ~youtube
    THEN GvcReturn(vid, maxc, <<>>, <<>>, NoRequest, FALSE, 0, 0, FALSE)
    ELSE /\ video_id' = vid
         /\ max_comments' = maxc
         /\ comments' = <<>>
         /\ next_page_token' = FALSE
         /\ n_pages' = 0
         /\ n_tokens' = 0
         /\ fetch_error' = FALSE
         /\ request' = [live |-> TRUE, maxResults |-> FirstPageSize(maxc),
                        pageToken |-> FALSE]
         /\ pc' = "gvc_loop"
         /\ UNCHANGED <<ret, all_comments, first_failed, idx, returned>>

\* lines 165-190: one iteration of the while loop, the response being a page
\* of items; when the loop condition is false afterwards, the return of line 190
gvc_page ==
    /\ pc = "gvc_loop"
    /\ LoopRuns(request, Len(comments), max_comments)
    /\ \E items \in PagesUpTo[MaxThread - Len(comments)], token \in BOOLEAN :
          LET cs == comments \o CleanedPage[items]
              req == IF ContinuePaging(token, Len(cs), max_comments)
                     THEN [live |-> TRUE,
                           maxResults |-> NextPageSize(max_comments, Len(cs)),
                           pageToken |-> TRUE]
                     ELSE NoRequest
              nt == IF token THEN n_tokens + 1 ELSE n_tokens
          IN  /\ token => n_pages + 1 < MaxPages
              /\ IF LoopRuns(req, Len(cs), max_comments)
                 THEN /\ comments' = cs
                      /\ request' = req
                      /\ next_page_token' = token
                      /\ n_pages' = n_pages + 1
                      /\ n_tokens' = nt
                      /\ UNCHANGED <<pc, ret, video_id, max_comments,
                                     fetch_error, all_comments, first_failed,
                                     idx, returned>>
                 ELSE GvcReturn(video_id, max_comments,
                                FetchResult(cs, max_comments), cs, req, token,
                                n_pages + 1, nt, FALSE)
    /\ UNCHANGED <<confVars, searchVars, fetched, raised>>

\* lines 166, 192-194: request.execute() raises
gvc_error ==
    /\ pc = "gvc_loop"
    /\ LoopRuns(request, Len(comments), max_comments)
    /\ IF FetchCatches
       THEN /\ GvcReturn(video_id, max_comments, FetchResultOnError(comments),
                         comments, request, next_page_token, n_pages + 1,
                         n_tokens, TRUE)
            /\ UNCHANGED raised
       ELSE /\ raised' = TRUE
            /\ pc' = "done"
            /\ fetch_error' = TRUE
            /\ n_pages' = n_pages + 1
            /\ UNCHANGED <<ret, video_id, max_comments, comments, request,
                           next_page_token, n_tokens, all_comments,
                           first_failed, idx, returned>>
    /\ UNCHANGED <<confVars, searchVars, fetched>>

\* the caller calls get_video_comments itself
gvc_call ==
    /\ pc = "ready"
    /\ entry = "get_video_comments"
    /\ \E maxc \in CommentArgs : GvcEnter("v1", maxc)
    /\ UNCHANGED <<confVars, searchVars, fetched, raised>>

-----------------------------------------------------------------------------
(* __init__ and run *)

\* line 267: max_comments=20
RunCommentCap == PerVideoCap

\* mutant: the test for an empty list is missing
NoVideosNever(vs) == FALSE

\* line 255: if not videos
NoVideos(vs) == vs = <<>>

\* lines 44-60
setup_youtube_api ==
    /\ pc = "new"
    /\ \E build_ok \in BOOLEAN :
          /\ youtube' = (api_key /\ build_ok)
          /\ selected' = (api_key /\ build_ok)
    /\ pc' = "ready"
    /\ UNCHANGED <<api_key, max_videos, entry, keyword, raised>>
    /\ UNCHANGED <<searchVars, fetched, first_failed, idx, all_comments, returned>>
    /\ UNCHANGED <<video_id, max_comments, comments, request, next_page_token,
                   ret, n_pages, n_tokens, fetch_error>>

\* lines 253-259: run continues with the list vs search_videos returned
RunAfterSearch(vs) ==
    /\ videos' = vs
    /\ IF NoVideos(vs)
       THEN result' = NoResultsReport /\ pc' = "done" /\ UNCHANGED idx
       ELSE idx' = 1 /\ pc' = "fetch_loop" /\ UNCHANGED result

\* lines 253-259 with 105-109 and 135-138: the search call ended, ok or by an
\* exception, the source having sent n items; vs is the list it builds
RunSearched(ok, n, vs) ==
    /\ src_items' = n
    /\ search_error' = ~ok
    /\ IF ok \/ SearchCatches
       THEN RunAfterSearch(vs) /\ UNCHANGED raised
       ELSE /\ raised' = TRUE
            /\ pc' = "done"
            /\ UNCHANGED <<videos, idx, result>>

\* lines 249-259 with 79-109: run calls search_videos, the API is configured
run_search_api ==
    /\ pc = "ready"
    /\ entry = "run"
    /\ youtube
    /\ n_api_search' = n_api_search + 1
    /\ \E ok \in BOOLEAN, items \in SearchResponses :
          /\ ok \/ items = <<>>
          /\ RunSearched(ok, Len(items), SearchApiResult(ok, items))
    /\ UNCHANGED <<n_ytdlp, n_report, fetched, first_failed, all_comments,
                   returned>>
    /\ UNCHANGED <<video_id, max_comments, comments, request, next_page_token,
                   ret, n_pages, n_tokens, fetch_error>>
    /\ UNCHANGED confVars

\* lines 249-259 with 75-77 and 111-138: run calls search_videos, no API object
run_search_yt_dlp ==
    /\ pc = "ready"
    /\ entry = "run"
    /\ ~youtube
    /\ n_ytdlp' = n_ytdlp + 1
    /\ \E ok \in BOOLEAN, items \in SearchResponses :
          /\ ok \/ items = <<>>
          /\ RunSearched(ok, Len(items), SearchYtDlpResult(ok, items))
    /\ UNCHANGED <<n_api_search, n_report, fetched, first_failed, all_comments,
                   returned>>
    /\ UNCHANGED <<video_id, max_comments, comments, request, next_page_token,
                   ret, n_pages, n_tokens, fetch_error>>
    /\ UNCHANGED confVars

\* lines 265-267: the loop calls get_video_comments for the next video
run_fetch_call ==
    /\ pc = "fetch_loop"
    /\ idx <= Len(videos)
    /\ GvcEnter(videos[idx].id, RunCommentCap)
    /\ fetched' = Append(fetched, videos[idx].id)
    /\ UNCHANGED <<confVars, searchVars, raised>>

\* lines 272-274: the loop is over
run_generate_report ==
    /\ pc = "fetch_loop"
    /\ idx > Len(videos)
    /\ result' = generate_report(keyword, videos, all_comments)
    /\ n_report' = n_report + 1
    /\ pc' = "done"
    /\ UNCHANGED <<videos, n_api_search, n_ytdlp, src_items, search_error>>
    /\ UNCHANGED <<fetched, first_failed, idx, all_comments, raised, returned>>
    /\ UNCHANGED <<video_id, max_comments, comments, request, next_page_token,
                   ret, n_pages, n_tokens, fetch_error>>
    /\ UNCHANGED confVars

-----------------------------------------------------------------------------

Init ==
    /\ api_key \in BOOLEAN
    /\ youtube = FALSE
    /\ selected = FALSE
    /\ max_videos \in 1..MaxVideosArg
    /\ entry \in {"run", "get_video_comments"}
    /\ keyword \in Keywords
    /\ pc = "new"
    /\ videos = <<>>
    /\ idx = 0
    /\ all_comments = EmptyDict
    /\ video_id = ""
    /\ max_comments = 0
    /\ comments = <<>>
    /\ request = NoRequest
    /\ next_page_token = FALSE
    /\ ret = <<>>
    /\ result = <<>>
    /\ raised = FALSE
    /\ n_api_search = 0
    /\ n_ytdlp = 0
    /\ src_items = 0
    /\ search_error = FALSE
    /\ fetched = <<>>
    /\ returned = <<>>
    /\ first_failed = 0
    /\ n_report = 0
    /\ n_pages = 0
    /\ n_tokens = 0
    /\ fetch_error = FALSE

Next ==
    \/ setup_youtube_api
    \/ run_search_api
    \/ run_search_yt_dlp
    \/ run_fetch_call
    \/ gvc_page
    \/ gvc_error
    \/ run_generate_report
    \/ gvc_call

Spec == Init /\ [][Next]_vars

\* the program is sequential: a call in progress takes its next step
FairSpec == Spec /\ WF_vars(Next)

-----------------------------------------------------------------------------
(* Reading a report back: its video sections and their comment lines *)

VideoLinePositions(rep) == {i \in 1..Len(rep) : rep[i].kind = "video"}

NumSections(rep) == Cardinality(VideoLinePositions(rep))

\* position of the k-th video line
SectionStart(rep, k) ==
    CHOOSE i \in VideoLinePositions(rep) :
        Cardinality({j \in VideoLinePositions(rep) : j <= i}) = k

\* the lines from the k-th video line to the line before the next section's
\* rule, or before the closing banner
SectionLines(rep, k) ==
    SubSeq(rep, SectionStart(rep, k),
           IF k < NumSections(rep) THEN SectionStart(rep, k + 1) - 2
           ELSE Len(rep) - 3)

IsCommentLine(l) == l.kind = "comment"

SectionCommentLines(rep, k) == SelectSeq(SectionLines(rep, k), IsCommentLine)

SectionHasMarker(rep, k) ==
    \E i \in 1..Len(SectionLines(rep, k)) :
        SectionLines(rep, k)[i].kind = "no_comments"

VideoIds(vs) == [k \in 1..Len(vs) |-> vs[k].id]

IsBlank(kw) == \A i \in 1..Len(kw) : IsSpace(kw[i])

CeilDiv(a, b) == (a + b - 1) \div b

\* the URL-stripped, trimmed texts of the comments a thread can carry
SourceTexts == {Strip(StripUrls(r)) : r \in RawComments}

Searched == entry = "run" /\ pc \notin {"new", "ready"}

Reported == entry = "run" /\ pc = "done" /\ n_report > 0

DirectDone == entry = "get_video_comments" /\ pc = "done"

-----------------------------------------------------------------------------
(* Claims *)

\* C1: when a page request of get_video_comments fails after k comments were
\* accumulated, the call returns exactly those k comments and raises nothing.
C1_PartialOnError ==
    (DirectDone /\ fetch_error) => (ret = comments /\ ~raised)

\* C2: run with an empty or blank keyword fails with InvalidInputError before
\* anything starts: no search, no fetch, no report or message is returned.
C2_BlankKeywordRejected ==
    (entry = "run" /\ IsBlank(keyword) /\ pc \notin {"new", "ready"}) =>
        /\ raised
        /\ n_api_search = 0 /\ n_ytdlp = 0
        /\ fetched = <<>>
        /\ result = <<>>

\* a list get_video_comments may return under cap
CappedAndClean(r, cap) ==
    /\ Len(r) <= cap
    /\ \A i \in 1..Len(r) : Len(r[i]) > MinLen /\ r[i] \in SourceTexts

\* C3: the list get_video_comments returns has at most max_comments elements,
\* each the URL-stripped, trimmed text of a source comment and longer than 10
\* characters; run always calls it with the cap 20, whatever max_videos is.
C3_CappedAndClean ==
    /\ DirectDone => CappedAndClean(ret, max_comments)
    /\ entry = "run" =>
          /\ \A k \in 1..Len(returned) : CappedAndClean(returned[k], 20)
          /\ pc = "gvc_loop" => max_comments = 20

\* a direct call whose list was cut to max_comments and holds a comment that
\* lost its URL
C3_Witness ==
    /\ DirectDone
    /\ Len(comments) > max_comments
    /\ Len(ret) = max_comments
    /\ ret[1] = <<"s", "e", "e", " ", " ", "n", "o", "w", " ", "o", "k">>

\* C4: the list search_videos returns has at most max_videos elements,
\* whatever number of items the source returned.
C4_SearchTruncates == Searched => Len(videos) <= max_videos

\* C5: when the search yields no video (no items, or an error degraded to an
\* empty list), run returns the fixed no-results message, calls neither the
\* comment fetcher nor the report builder, and does not raise.
C5_NoVideosNoReport ==
    (Searched /\ videos = <<>>) =>
        /\ pc = "done"
        /\ result = NoResultsReport
        /\ fetched = <<>>
        /\ n_report = 0
        /\ ~raised

\* a search that raised, answered by the no-results message
C5_Witness ==
    /\ Searched /\ search_error /\ n_api_search = 1
    /\ pc = "done" /\ result = NoResultsReport

\* C6: at report generation the comments mapping has an entry for each video
\* id of the list and for no other id; a video whose entry is empty has its
\* section with the no-comments marker, and there are as many sections as
\* videos.
C6_OneEntryPerVideo ==
    /\ (entry = "run" /\ pc = "fetch_loop" /\ idx > Len(videos)) =>
          DOMAIN all_comments = {videos[k].id : k \in 1..Len(videos)}
    /\ Reported =>
          /\ DOMAIN all_comments = {videos[k].id : k \in 1..Len(videos)}
          /\ NumSections(result) = Len(videos)
          /\ \A k \in 1..Len(videos) :
                IF all_comments[videos[k].id] = <<>>
                THEN /\ SectionHasMarker(result, k)
                     /\ SectionCommentLines(result, k) = <<>>
                ELSE ~SectionHasMarker(result, k)

\* a report of two videos, the first without comments, the second with some
C6_Witness ==
    /\ Reported
    /\ Len(videos) = 2
    /\ all_comments[videos[1].id] = <<>>
    /\ all_comments[videos[2].id] # <<>>

\* C7: the comment fetches are issued one per video in search order, the
\* report's sections come in that order between header and footer, and each
\* section numbers its comments 1..n in the order the fetcher returned them.
C7_OrderPreserved ==
    /\ entry = "run" => fetched = SubSeq(VideoIds(videos), 1, Len(fetched))
    /\ Reported =>
          /\ fetched = VideoIds(videos)
          /\ Len(returned) = Len(videos)
          /\ <<result[1].kind, result[2].kind, result[3].kind, result[4].kind,
               result[5].kind>> = <<"banner", "header", "banner", "date", "count">>
          /\ <<result[Len(result) - 2].kind, result[Len(result) - 1].kind,
               result[Len(result)].kind>> = <<"banner", "end", "banner">>
          /\ NumSections(result) = Len(videos)
          /\ \A k \in 1..Len(videos) :
                /\ result[SectionStart(result, k)].n = k
                /\ result[SectionStart(result, k)].text = videos[k].title
                /\ Len(SectionCommentLines(result, k)) = Len(returned[k])
                /\ \A i \in 1..Len(returned[k]) :
                      /\ SectionCommentLines(result, k)[i].n = i
                      /\ SectionCommentLines(result, k)[i].text = returned[k][i]

\* a report of two videos whose first section lists two different comments
C7_Witness ==
    /\ Reported
    /\ Len(videos) = 2
    /\ Len(returned[1]) = 2
    /\ returned[1][1] # returned[1][2]
    /\ returned[2] # <<>>

\* C8: with a credential present search_videos never takes the yt-dlp path,
\* also when setting up the API failed; and the choice made at construction
\* does not change afterwards.
C8_FallbackOnlyWithoutKey ==
    /\ api_key => n_ytdlp = 0
    /\ pc # "new" => youtube = selected

RunValid == entry = "run" /\ ~IsBlank(keyword)

\* C9: for a non-empty keyword no failing source call makes run abort: run
\* never raises, fetches every video after one whose fetch failed, and
\* eventually returns a report with a section for every video found.
C9_RunNeverAborts ==
    /\ [](RunValid => ~raised)
    /\ [](RunValid /\ pc = "done" =>
             /\ fetched = VideoIds(videos)
             /\ videos # <<>> => NumSections(result) = Len(videos))
    /\ (RunValid ~> (pc = "done" /\ result # <<>>))

\* a finished run of two videos whose first fetch failed
C9_Witness ==
    /\ RunValid /\ Reported
    /\ Len(videos) = 2
    /\ first_failed = 1
    /\ Len(fetched) = 2
    /\ NumSections(result) = 2

\* the request pending in get_video_comments asks for min(100, remaining), and
\* a request for a next page exists only after a response with a token that
\* left the list below max_comments
RequestsWellFormed ==
    request.live =>
        /\ request.maxResults = Min(100, max_comments - Len(comments))
        /\ request.pageToken => next_page_token /\ Len(comments) < max_comments

\* C10 as stated: well-formed requests, and at most ceil(max_comments / 100)
\* page requests in one call.
C10_PagesBoundedByCeil ==
    /\ RequestsWellFormed
    /\ max_comments > 0 => n_pages <= CeilDiv(max_comments, 100)

\* C10 amended: well-formed requests, and every page request after the first
\* answers a response that carried a continuation token.
C10_PagesFollowTokens ==
    /\ RequestsWellFormed
    /\ n_pages <= n_tokens + 1

\* a call with max_comments = 2 that kept one comment of its first page and
\* asked for a second page of size 1: more than ceil(2 / 100) requests
C10_Witness ==
    /\ DirectDone
    /\ max_comments = 2
    /\ n_pages = 2
    /\ n_pages > CeilDiv(max_comments, 100)
    /\ Len(ret) = 2

=============================================================================
